---- MODULE Spec2Model ----
(***************************************************************************)
(* Model of the two download scripts Code/get_investments_data.py (the     *)
(* "general" profile, suffix _investments) and Code/get_other_controls.py  *)
(* (the "spreadsheet-only" profile, suffix _controls).                     *)
(*                                                                         *)
(* Byte strings (bytes) are sequences of integers 0..255.  Text (str) is a *)
(* TLA+ string; its i-th character is SubSeq(s, i, i).                     *)
(***************************************************************************)
EXTENDS Integers, Sequences, FiniteSets, TLC

VARIABLES
  \* --- one call of a pure helper (classifiers, sanitize_filename) ---
  arg,        \* the argument the helper is called with
  shape,      \* how that argument was put together (input bookkeeping)
  ret,        \* the value returned by the helper
  op,         \* "idle" before the call, afterwards the helper that ran
  \* --- one call of download_file(url, base_filename) ---
  profile,    \* "investments" or "controls": which script's download_file
  url,        \* the remote resource: what the server answers for this URL
  base_filename,
  pc,         \* position inside download_file
  content_type, extension_from_header,
  content_chunks, first_chunk, extension_from_content,
  final_extension, final_filename,
  pending,    \* chunks of the response body not yet delivered
  written,    \* number of chunks already written to the open file
  exc,        \* class of the exception raised inside the try block, or None
  result,     \* the returned pair <<success, final_filename>>
  cwd,        \* process working directory
  fs,         \* file system: path -> bytes, for the files that exist
  fs0,        \* the file system when download_file was entered
  disk,       \* the disk: may files be opened, how many chunks still fit
  classified, \* buffers handed to detect_file_type_from_content so far
  \* --- main(): the orchestration loop ---
  df, index, mpc, previous_oblast, dirs,
  successful_downloads, failed_downloads, failed_downloads_list,
  calls,      \* row numbers handed to download_file, in call order
  outcomes    \* success flag returned by download_file for each call

pure_vars == <<arg, shape, ret, op>>
call_vars == <<profile, url, base_filename, pc, content_type,
               extension_from_header, content_chunks, first_chunk,
               extension_from_content, final_extension, final_filename,
               pending, written, exc, result, classified>>
env_vars  == <<cwd, fs, fs0, disk>>
main_vars == <<df, index, mpc, previous_oblast, dirs, successful_downloads,
               failed_downloads, failed_downloads_list, calls, outcomes>>
vars == <<pure_vars, call_vars, env_vars, main_vars>>

None == "None"          \* Python's None
Unbound == "<unbound>"  \* a local name that no assignment has bound yet
NoChunk == <<>>         \* first_chunk is None; <<c>> when first_chunk is c
NoResult == <<>>        \* download_file has not returned

(***************************************************************************)
(* Python built-ins used by the scripts                                    *)
(***************************************************************************)
MinOf(S) == CHOOSE x \in S : \A y \in S : x <= y
MaxOf(S) == CHOOSE x \in S : \A y \in S : x >= y

\* s[:n]
Slice(s, n) == SubSeq(s, 1, IF n < Len(s) THEN n ELSE Len(s))

\* s.startswith(p), for bytes and for str
StartsWith(s, p) == Len(p) <= Len(s) /\ SubSeq(s, 1, Len(p)) = p

\* sub in s, for bytes
Contains(sub, s) ==
  \E i \in 1..(Len(s) - Len(sub) + 1) : SubSeq(s, i, i + Len(sub) - 1) = sub

\* s.split(sep)[0] for a one-character sep: the text before the first sep
str_split_first(s, sep) ==
  LET at == {i \in 1..Len(s) : SubSeq(s, i, i) = sep}
  IN  IF at = {} THEN s ELSE SubSeq(s, 1, MinOf(at) - 1)

\* s.strip(chars): drop the leading and trailing characters that are in chars
str_strip(s, chars) ==
  LET keep == {i \in 1..Len(s) : SubSeq(s, i, i) \notin chars}
  IN  IF keep = {} THEN "" ELSE SubSeq(s, MinOf(keep), MaxOf(keep))

\* the characters s.strip() with no argument removes (those a TLA+ string
\* literal can hold)
PyWhitespace == {" ", "\t", "\n", "\r", "\f"}

UpperLetters == "ABCDEFGHIJKLMNOPQRSTUVWXYZ"
LowerLetters == "abcdefghijklmnopqrstuvwxyz"

char_lower(c) ==
  LET at == {i \in 1..Len(UpperLetters) : SubSeq(UpperLetters, i, i) = c}
  IN  IF at = {} THEN c ELSE SubSeq(LowerLetters, MinOf(at), MinOf(at))

\* s.lower(); the string is mapped half by half to keep the evaluation shallow
RECURSIVE str_lower(_)
str_lower(s) ==
  IF Len(s) = 0 THEN ""
  ELSE IF Len(s) = 1 THEN char_lower(s)
  ELSE LET h == Len(s) \div 2
       IN  str_lower(SubSeq(s, 1, h)) \o str_lower(SubSeq(s, h + 1, Len(s)))

\* s.replace(old, new) for a one-character old
RECURSIVE str_replace(_, _, _)
str_replace(s, old, new) ==
  IF Len(s) = 0 THEN ""
  ELSE IF Len(s) = 1 THEN (IF s = old THEN new ELSE s)
  ELSE LET h == Len(s) \div 2
       IN  str_replace(SubSeq(s, 1, h), old, new)
             \o str_replace(SubSeq(s, h + 1, Len(s)), old, new)

\* dict.get(key, default)
dict_get(d, key, default) == IF key \in DOMAIN d THEN d[key] ELSE default

\* A dict display {k1: v1, k2: v2, ...} given as the sequence of its
\* <<key, value>> items: a repeated key keeps the position of its first
\* occurrence and takes the value of its last one.  The result is the
\* sequence of items in iteration (.items()) order.
dict_literal(items) ==
  LET firsts == {i \in 1..Len(items) :
                   \A j \in 1..(i - 1) : items[j][1] # items[i][1]}
      nth(n) == CHOOSE i \in firsts : Cardinality({j \in firsts : j < i}) = n - 1
      last(k) == MaxOf({j \in 1..Len(items) : items[j][1] = k})
  IN  [n \in 1..Cardinality(firsts) |->
         <<items[nth(n)][1], items[last(items[nth(n)][1])][2]>>]

(***************************************************************************)
(* bytes.decode('utf-8', errors='ignore')                                  *)
(***************************************************************************)
IsCont(b, i) == i <= Len(b) /\ b[i] >= 128 /\ b[i] <= 191
InRange(b, i, lo, hi) == i <= Len(b) /\ b[i] >= lo /\ b[i] <= hi

\* number of bytes of the well-formed UTF-8 sequence starting at b[i]; 0 when
\* b[i] starts none (the byte is then skipped by errors='ignore')
utf8_len(b, i) ==
  LET c == b[i]
  IN  IF c < 128 THEN 1
      ELSE IF c >= 194 /\ c <= 223 THEN (IF IsCont(b, i + 1) THEN 2 ELSE 0)
      ELSE IF c = 224
             THEN (IF InRange(b, i + 1, 160, 191) /\ IsCont(b, i + 2) THEN 3 ELSE 0)
      ELSE IF c = 237
             THEN (IF InRange(b, i + 1, 128, 159) /\ IsCont(b, i + 2) THEN 3 ELSE 0)
      ELSE IF c >= 225 /\ c <= 239
             THEN (IF IsCont(b, i + 1) /\ IsCont(b, i + 2) THEN 3 ELSE 0)
      ELSE IF c = 240
             THEN (IF InRange(b, i + 1, 144, 191) /\ IsCont(b, i + 2)
                      /\ IsCont(b, i + 3) THEN 4 ELSE 0)
      ELSE IF c >= 241 /\ c <= 243
             THEN (IF IsCont(b, i + 1) /\ IsCont(b, i + 2) /\ IsCont(b, i + 3)
                   THEN 4 ELSE 0)
      ELSE IF c = 244
             THEN (IF InRange(b, i + 1, 128, 143) /\ IsCont(b, i + 2)
                      /\ IsCont(b, i + 3) THEN 4 ELSE 0)
      ELSE 0

\* the code point encoded by the n bytes at b[i]
utf8_codepoint(b, i, n) ==
  IF n = 1 THEN b[i]
  ELSE IF n = 2 THEN (b[i] - 192) * 64 + (b[i + 1] - 128)
  ELSE IF n = 3 THEN (b[i] - 224) * 4096 + (b[i + 1] - 128) * 64 + (b[i + 2] - 128)
  ELSE (b[i] - 240) * 262144 + (b[i + 1] - 128) * 4096
         + (b[i + 2] - 128) * 64 + (b[i + 3] - 128)

\* The first k code points of b.decode('utf-8', errors='ignore'), decoding
\* from byte i on.  startswith(p) reads only the first len(p) code points of
\* the decoded text, so the decoder is run only that far.
RECURSIVE utf8_decode_ignore(_, _, _)
utf8_decode_ignore(b, i, k) ==
  IF k = 0 \/ i > Len(b) THEN <<>>
  ELSE LET n == utf8_len(b, i)
       IN  IF n = 0 THEN utf8_decode_ignore(b, i + 1, k)
           ELSE <<utf8_codepoint(b, i, n)>> \o utf8_decode_ignore(b, i + n, k - 1)

\* str.lower() on code points: A-Z are lowered; the other code points are
\* left alone (none of them lowers to a character the sniffing tests for)
codepoints_lower(t) ==
  [i \in 1..Len(t) |-> IF t[i] >= 65 /\ t[i] <= 90 THEN t[i] + 32 ELSE t[i]]

\* c in content_str, for an ASCII character c that is not a letter: an ASCII
\* byte always decodes to itself and no other byte sequence decodes to it
decoded_has(b, c) == \E i \in 1..Len(b) : b[i] = c

(***************************************************************************)
(* bytes literals                                                          *)
(***************************************************************************)
\* the printable ASCII characters of codes 32..95 and of codes 97..126
PrintableLow ==
  " !\"#$%&'()*+,-./0123456789:;<=>?@ABCDEFGHIJKLMNOPQRSTUVWXYZ[\\]^_"
PrintableHigh == "abcdefghijklmnopqrstuvwxyz{|}~"

ord(c) ==
  LET lo == {i \in 1..Len(PrintableLow) : SubSeq(PrintableLow, i, i) = c}
      hi == {i \in 1..Len(PrintableHigh) : SubSeq(PrintableHigh, i, i) = c}
  IN  IF lo # {} THEN 31 + MinOf(lo) ELSE 96 + MinOf(hi)

\* b'...' for a literal of printable ASCII characters
bytes_of(s) == [i \in 1..Len(s) |-> ord(SubSeq(s, i, i))]

SIG_ZIP       == <<\H50, \H4B, \H03, \H04>>
SIG_ZIP_EMPTY == <<\H50, \H4B, \H05, \H06>>
SIG_ZIP_SPAN  == <<\H50, \H4B, \H07, \H08>>
SIG_RAR       == <<\H52, \H61, \H72, \H21>>
SIG_7Z        == <<\H37, \H7A, \HBC, \HAF, \H27, \H1C>>
SIG_PDF       == <<\H25, \H50, \H44, \H46>>
SIG_OLE       == <<\HD0, \HCF, \H11, \HE0, \HA1, \HB1, \H1A, \HE1>>
SIG_GZIP      == <<\H1F, \H8B>>
SIG_BZIP2     == <<\H42, \H5A, \H68>>
SIG_PK        == <<\H50, \H4B>>

MARK_XL   == bytes_of("xl/")
MARK_WORD == bytes_of("word/")
MARK_CT   == bytes_of("[Content_Types].xml")

\* content[:1024]
SniffWindow == 1024

(***************************************************************************)
(* get_investments_data.py: the general profile                            *)
(***************************************************************************)
content_type_map_investments ==
     "application/pdf" :> ".pdf"
  @@ "application/vnd.ms-excel" :> ".xls"
  @@ "application/vnd.openxmlformats-officedocument.spreadsheetml.sheet" :> ".xlsx"
  @@ "application/zip" :> ".zip"
  @@ "application/x-rar-compressed" :> ".rar"
  @@ "application/x-7z-compressed" :> ".7z"
  @@ "application/octet-stream" :> ".bin"
  @@ "text/csv" :> ".csv"
  @@ "application/json" :> ".json"
  @@ "text/plain" :> ".txt"
  @@ "application/xml" :> ".xml"
  @@ "text/xml" :> ".xml"

\* clean_content_type_investments without the .lower()
clean_content_type_no_lower(ct) ==
  str_strip(str_split_first(ct, ";"), PyWhitespace)

\* content_type.split(';')[0].strip().lower()
clean_content_type_investments(ct) ==
  str_lower(str_strip(str_split_first(ct, ";"), PyWhitespace))

get_file_extension_from_content_type_investments(ct) ==
  dict_get(content_type_map_investments, clean_content_type_investments(ct), ".file")

magic_numbers_investments ==
  dict_literal(<< <<SIG_ZIP, ".zip">>,
                  <<SIG_ZIP_EMPTY, ".zip">>,
                  <<SIG_ZIP_SPAN, ".zip">>,
                  <<SIG_RAR, ".rar">>,
                  <<SIG_7Z, ".7z">>,
                  <<SIG_PDF, ".pdf">>,
                  <<SIG_OLE, ".xls">>,
                  <<SIG_ZIP, ".xlsx">>,
                  <<SIG_GZIP, ".gz">>,
                  <<SIG_BZIP2, ".bz2">> >>)

\* the body of the `if magic == b'PK\x03\x04'` branch
zip_family_investments(content) ==
  IF Contains(MARK_XL, Slice(content, SniffWindow))
       \/ Contains(MARK_CT, Slice(content, SniffWindow))
    THEN ".xlsx"
  ELSE IF Contains(MARK_WORD, Slice(content, SniffWindow))
    THEN ".docx"
  ELSE ".zip"

\* the statements after the loop over magic_numbers: sniffing the text
sniff_text_investments(content) ==
  LET head == Slice(content, SniffWindow)
      starts(p) == codepoints_lower(utf8_decode_ignore(head, 1, Len(p))) = bytes_of(p)
  IN  IF starts("<?xml") THEN ".xml"
      ELSE IF starts("{") \/ starts("[") THEN ".json"
      ELSE IF decoded_has(head, 44) /\ decoded_has(head, 10) THEN ".csv"
      ELSE ".file"

\* detect_file_type_from_content_investments with the interior markers
\* looked up after any signature that starts with 'PK'
detect_investments_markers_on_any_pk(content) ==
  IF Len(content) = 0 THEN ".file"
  ELSE LET M == magic_numbers_investments
           hits == {i \in 1..Len(M) : StartsWith(content, M[i][1])}
       IN  IF hits # {}
             THEN LET magic == M[MinOf(hits)][1]
                      ext   == M[MinOf(hits)][2]
                  IN  IF StartsWith(magic, SIG_PK) THEN zip_family_investments(content)
                      ELSE ext
           ELSE sniff_text_investments(content)

detect_file_type_from_content_investments(content) ==
  IF Len(content) = 0 THEN ".file"
  ELSE LET M == magic_numbers_investments
           hits == {i \in 1..Len(M) : StartsWith(content, M[i][1])}
       IN  IF hits # {}
             THEN LET magic == M[MinOf(hits)][1]
                      ext   == M[MinOf(hits)][2]
                  IN  IF magic = SIG_ZIP THEN zip_family_investments(content)
                      ELSE ext
           ELSE sniff_text_investments(content)

(***************************************************************************)
(* get_other_controls.py: the spreadsheet-only profile                     *)
(***************************************************************************)
content_type_map_controls ==
     "application/vnd.ms-excel" :> ".xls"
  @@ "application/vnd.openxmlformats-officedocument.spreadsheetml.sheet" :> ".xlsx"
  @@ "application/octet-stream" :> ".xlsx"
  @@ "text/csv" :> ".csv"
  @@ "application/json" :> ".json"
  @@ "text/plain" :> ".txt"
  @@ "application/xml" :> ".xml"
  @@ "text/xml" :> ".xml"

\* content_type.split(';')[0].strip().lower()
clean_content_type_controls(ct) ==
  str_lower(str_strip(str_split_first(ct, ";"), PyWhitespace))

get_file_extension_from_content_type_controls(ct) ==
  dict_get(content_type_map_controls, clean_content_type_controls(ct), ".xlsx")

magic_numbers_controls ==
  dict_literal(<< <<SIG_OLE, ".xls">>,
                  <<SIG_ZIP, ".xlsx">>,
                  <<SIG_ZIP_EMPTY, ".xlsx">>,
                  <<SIG_ZIP_SPAN, ".xlsx">> >>)

detect_file_type_from_content_controls(content) ==
  IF Len(content) = 0 THEN ".xlsx"
  ELSE LET M == magic_numbers_controls
           hits == {i \in 1..Len(M) : StartsWith(content, M[i][1])}
       IN  IF hits # {}
             THEN LET magic == M[MinOf(hits)][1]
                      ext   == M[MinOf(hits)][2]
                  IN  IF StartsWith(magic, SIG_PK)
                           /\ (Contains(MARK_XL, Slice(content, SniffWindow))
                               \/ Contains(MARK_CT, Slice(content, SniffWindow)))
                        THEN ".xlsx"
                      ELSE ext
           ELSE ".xlsx"

\* '<>:"/\\|?*'
invalid_chars == "<>:\"/\\|?*"

\* filename[:200]
MaxFilenameLen == 200

\* for char in invalid_chars: filename = filename.replace(char, '_')
RECURSIVE replace_invalid(_, _)
replace_invalid(filename, i) ==
  IF i > Len(invalid_chars) THEN filename
  ELSE replace_invalid(str_replace(filename, SubSeq(invalid_chars, i, i), "_"), i + 1)

\* if len(filename) > 200: filename = filename[:200]
cap_length(filename) ==
  IF Len(filename) > MaxFilenameLen THEN SubSeq(filename, 1, MaxFilenameLen)
  ELSE filename

sanitize_filename(filename) ==
  cap_length(str_strip(replace_invalid(filename, 1), {".", " "}))

(***************************************************************************)
(* Values of the variables a specification does not use                    *)
(***************************************************************************)
PureIdle == arg = None /\ shape = None /\ ret = None /\ op = "idle"

CallIdle ==
  /\ profile = None /\ url = None /\ base_filename = None /\ pc = "idle"
  /\ content_type = Unbound /\ extension_from_header = Unbound
  /\ content_chunks = Unbound /\ first_chunk = Unbound
  /\ extension_from_content = Unbound /\ final_extension = Unbound
  /\ final_filename = Unbound /\ pending = <<>> /\ written = 0
  /\ exc = None /\ result = NoResult /\ classified = <<>>

NoFiles == [p \in {} |-> <<>>]

\* a disk that accepts every open and every write.  writable: open(name,
\* 'wb') succeeds (the file is not locked or read-only); limited: the disk
\* runs full after room more chunks
GoodDisk == [writable |-> TRUE, limited |-> FALSE, room |-> 0]

EnvIdle == cwd = "." /\ fs = NoFiles /\ fs0 = NoFiles /\ disk = GoodDisk

MainIdle ==
  /\ df = <<>> /\ index = 0 /\ mpc = "idle" /\ previous_oblast = None
  /\ dirs = {} /\ successful_downloads = 0 /\ failed_downloads = 0
  /\ failed_downloads_list = <<>> /\ calls = <<>> /\ outcomes = <<>>

(***************************************************************************)
(* SpecSignature: detect_file_type_from_content on its own                 *)
(***************************************************************************)
\* how far past the sniffing window the generated buffers place a marker
MaxOverhang == 1

\* n filler bytes b'a'
fill(n) == [i \in 1..n |-> ord("a")]

\* what a generated buffer starts with
Heads ==
  { <<>>, SIG_ZIP, SIG_ZIP_EMPTY, SIG_ZIP_SPAN, SIG_RAR, SIG_7Z, SIG_PDF,
    SIG_OLE, SIG_GZIP, SIG_BZIP2, SIG_PK,
    bytes_of("<?xml "), bytes_of("<?XML "), bytes_of("{"), bytes_of("["),
    <<255>> \o bytes_of("{"), <<195, 169>> \o bytes_of("{"),
    <<226, 130>> \o bytes_of("[1]"),
    bytes_of("a,b") \o <<10>>, bytes_of("abc") }

\* the interior markers placed after the filler
Tails ==
  { <<>>, MARK_XL, MARK_WORD, MARK_CT, MARK_WORD \o MARK_CT,
    MARK_XL \o MARK_WORD, MARK_WORD \o MARK_XL }

\* filler lengths: none, or so many that the tail ends k bytes past the window
Gaps(head, tail) ==
  {0} \cup {SniffWindow - Len(head) - Len(tail) + k : k \in 0..MaxOverhang}

Buffer(head, tail, gap) == head \o fill(gap) \o tail

InitSignature ==
  /\ \E head \in Heads, tail \in Tails :
       \E gap \in Gaps(head, tail) :
         /\ arg = Buffer(head, tail, gap)
         /\ shape = [head |-> head, tail |-> tail, gap |-> gap]
  /\ ret = None /\ op = "idle"
  /\ CallIdle /\ EnvIdle /\ MainIdle

DetectInvestments ==
  /\ op = "idle"
  /\ ret' = detect_file_type_from_content_investments(arg)
  /\ op' = "detect_investments"
  /\ UNCHANGED <<arg, shape, call_vars, env_vars, main_vars>>

DetectControls ==
  /\ op = "idle"
  /\ ret' = detect_file_type_from_content_controls(arg)
  /\ op' = "detect_controls"
  /\ UNCHANGED <<arg, shape, call_vars, env_vars, main_vars>>

NextSignature == DetectInvestments \/ DetectControls

SpecSignature == InitSignature /\ [][NextSignature]_vars

(***************************************************************************)
(* SpecContentType: get_file_extension_from_content_type on its own        *)
(***************************************************************************)
char_upper(c) ==
  LET at == {i \in 1..Len(LowerLetters) : SubSeq(LowerLetters, i, i) = c}
  IN  IF at = {} THEN c ELSE SubSeq(UpperLetters, MinOf(at), MinOf(at))

\* s with the characters at the positions divisible by step in upper case
RECURSIVE str_upper_every(_, _, _)
str_upper_every(s, from, step) ==
  IF Len(s) = 0 THEN ""
  ELSE IF Len(s) = 1 THEN (IF from % step = 0 THEN char_upper(s) ELSE s)
  ELSE LET h == Len(s) \div 2
       IN  str_upper_every(SubSeq(s, 1, h), from, step)
             \o str_upper_every(SubSeq(s, h + 1, Len(s)), from + h, step)

\* The content types the headers are generated from.  Each is in normal
\* form: lower case, no semicolon, no white space at either end.
BaseTypes ==
  DOMAIN content_type_map_investments \cup DOMAIN content_type_map_controls
    \cup {"", "image/png", "text/html", "application", "text/ csv", "text/csvx"}

LeadSpace  == {"", " ", "\t "}
TrailSpace == {"", " ", "\r\n"}
Params     == {"", ";", "; charset=utf-8", " ;text/csv", ";;"}

\* spelling of the letters: as is (0), all upper case (1), every k-th upper
MaxCaseStep == 2

Header(base, lead, trail, params, step) ==
  lead \o (IF step = 0 THEN base ELSE str_upper_every(base, 1, step))
       \o trail \o params

InitContentType ==
  /\ \E base \in BaseTypes, lead \in LeadSpace, trail \in TrailSpace,
        params \in Params, step \in 0..MaxCaseStep :
       /\ arg = Header(base, lead, trail, params, step)
       /\ shape = [base |-> base, lead |-> lead, trail |-> trail,
                   params |-> params, step |-> step]
  /\ ret = None /\ op = "idle"
  /\ CallIdle /\ EnvIdle /\ MainIdle

ExtensionInvestments ==
  /\ op = "idle"
  /\ ret' = get_file_extension_from_content_type_investments(arg)
  /\ op' = "content_type_investments"
  /\ UNCHANGED <<arg, shape, call_vars, env_vars, main_vars>>

ExtensionControls ==
  /\ op = "idle"
  /\ ret' = get_file_extension_from_content_type_controls(arg)
  /\ op' = "content_type_controls"
  /\ UNCHANGED <<arg, shape, call_vars, env_vars, main_vars>>

NextContentType == ExtensionInvestments \/ ExtensionControls

SpecContentType == InitContentType /\ [][NextContentType]_vars

(***************************************************************************)
(* SpecSanitize: sanitize_filename on its own                              *)
(***************************************************************************)
\* n copies of the character c
RECURSIVE repeat(_, _)
repeat(c, n) ==
  IF n = 0 THEN ""
  ELSE IF n = 1 THEN c
  ELSE repeat(c, n \div 2) \o repeat(c, n - (n \div 2))

\* how far past the length cap the generated runs of letters go
MaxExtra == 1

NameLead == {"", " ", ".", " ."}
NameMid  == {"", "x/y", "a:b*c", "<>|?\"\\"}
NameTail == {"", " ", ".", ". ", " b", ".b", "/", "..bc"}
RunLengths ==
  {0, 3} \cup {MaxFilenameLen - 2 + k : k \in 0..(2 + MaxExtra)}

InitSanitize ==
  /\ \E lead \in NameLead, mid \in NameMid, tail \in NameTail, n \in RunLengths :
       /\ arg = lead \o mid \o repeat("a", n) \o tail
       /\ shape = [lead |-> lead, mid |-> mid, run |-> n, tail |-> tail]
  /\ ret = None /\ op = "idle"
  /\ CallIdle /\ EnvIdle /\ MainIdle

Sanitize ==
  /\ op = "idle"
  /\ ret' = sanitize_filename(arg)
  /\ op' = "sanitize_filename"
  /\ UNCHANGED <<arg, shape, call_vars, env_vars, main_vars>>

NextSanitize == Sanitize

SpecSanitize == InitSanitize /\ [][NextSanitize]_vars

(***************************************************************************)
(* download_file(url, base_filename), in both scripts                      *)
(*                                                                         *)
(* A URL is modelled by what the server does when it is fetched:           *)
(*   fault   "none", or the way requests.get fails ("connect", "timeout")  *)
(*   status  the HTTP status of the response                               *)
(*   ctype   the content-type header, NoHeader when the response has none  *)
(*   body    the chunks iter_content delivers, in order                    *)
(*   broken  TRUE when the connection breaks after those chunks            *)
(***************************************************************************)
NoHeader == "<no header>"

\* exception classes that can be raised inside the try block
RequestExceptionClasses ==
  {"ConnectionError", "Timeout", "HTTPError", "ChunkedEncodingError"}
ExceptionClasses ==
  RequestExceptionClasses \cup {"UnboundLocalError", "OSError"}

\* caught_investments without the `except Exception` clause
caught_request_only(e) == e \in RequestExceptionClasses

\* except requests.exceptions.RequestException / except Exception:
\* TRUE when one of the two clauses catches an exception of class e
caught_investments(e) == e \in RequestExceptionClasses \/ e \in ExceptionClasses
caught_controls(e)    == e \in RequestExceptionClasses \/ e \in ExceptionClasses

caught(prof, e) ==
  IF prof = "investments" THEN caught_investments(e) ELSE caught_controls(e)

\* response.raise_for_status()
raises_for_status(status) == status >= 400 /\ status < 600

\* response.headers.get('content-type', '')
header_get(u) == IF u.ctype = NoHeader THEN "" ELSE u.ctype

get_file_extension_from_content_type(prof, ct) ==
  IF prof = "investments" THEN get_file_extension_from_content_type_investments(ct)
  ELSE get_file_extension_from_content_type_controls(ct)

detect_file_type_from_content(prof, content) ==
  IF prof = "investments" THEN detect_file_type_from_content_investments(content)
  ELSE detect_file_type_from_content_controls(content)

\* if first_chunk is None:
is_first_chunk(first) == first = NoChunk

\* append_chunk putting the new chunk in front
append_chunk_in_front(chunks, chunk) == <<chunk>> \o chunks

\* content_chunks.append(chunk)
append_chunk(chunks, chunk) == Append(chunks, chunk)

\* resolve_extension_investments looking at the header first
resolve_extension_header_first(from_content, from_header) ==
  IF from_header # ".file" THEN from_header
  ELSE IF from_content # ".file" THEN from_content
  ELSE ".file"

\* "Decide on the best extension", get_investments_data.py
resolve_extension_investments(from_content, from_header) ==
  IF from_content # ".file" THEN from_content
  ELSE IF from_header # ".file" THEN from_header
  ELSE ".file"

\* resolve_extension_controls taking the header's label as it is whenever
\* the first chunk is not a legacy spreadsheet
resolve_extension_header_unchecked(from_content, from_header) ==
  IF from_content = ".xls" THEN from_content
  ELSE from_header

\* "Decide on the best extension", get_other_controls.py
resolve_extension_controls(from_content, from_header) ==
  IF from_content \in {".xls", ".xlsx"} THEN from_content
  ELSE IF from_header \in {".xls", ".xlsx"} THEN from_header
  ELSE ".xlsx"

resolve_extension(prof, from_content, from_header) ==
  IF prof = "investments" THEN resolve_extension_investments(from_content, from_header)
  ELSE resolve_extension_controls(from_content, from_header)

\* final_filename = base_filename + final_extension
make_filename(base, extension) == base \o extension

\* the file a relative name denotes in working directory dir
path_of(dir, name) == dir \o "/" \o name

\* open(name, 'wb'): the file exists afterwards and is empty
fs_open_wb(files, p) ==
  [q \in DOMAIN files \cup {p} |-> IF q = p THEN <<>> ELSE files[q]]

\* file.write(chunk)
fs_write(files, p, chunk) == [files EXCEPT ![p] = @ \o chunk]

\* the state download_file is entered in
Enter(prof, u, base) ==
  /\ profile' = prof /\ url' = u /\ base_filename' = base
  /\ pc' = "request"
  /\ content_type' = Unbound /\ extension_from_header' = Unbound
  /\ content_chunks' = Unbound /\ first_chunk' = Unbound
  /\ extension_from_content' = Unbound /\ final_extension' = Unbound
  /\ final_filename' = Unbound /\ pending' = <<>> /\ written' = 0
  /\ exc' = None /\ result' = NoResult /\ classified' = <<>>
  /\ fs0' = fs

\* an exception of class e is raised inside the try block
Raise(e) == exc' = e /\ pc' = "except"

\* requests.get(...), raise_for_status(), reading the header, and the
\* initialisation of content_chunks and first_chunk
Request ==
  /\ pc = "request"
  /\ IF url.fault = "connect" THEN
       /\ Raise("ConnectionError")
       /\ UNCHANGED <<content_type, extension_from_header, content_chunks,
                      first_chunk, pending>>
     ELSE IF url.fault = "timeout" THEN
       /\ Raise("Timeout")
       /\ UNCHANGED <<content_type, extension_from_header, content_chunks,
                      first_chunk, pending>>
     ELSE IF raises_for_status(url.status) THEN
       /\ Raise("HTTPError")
       /\ UNCHANGED <<content_type, extension_from_header, content_chunks,
                      first_chunk, pending>>
     ELSE
       /\ content_type' = header_get(url)
       /\ extension_from_header' =
            get_file_extension_from_content_type(profile, header_get(url))
       /\ content_chunks' = <<>>
       /\ first_chunk' = NoChunk
       /\ pending' = url.body
       /\ pc' = "stream"
       /\ exc' = exc
  /\ UNCHANGED <<profile, url, base_filename, extension_from_content,
                 final_extension, final_filename, written, result, classified>>
  /\ UNCHANGED <<pure_vars, env_vars, main_vars>>

\* one iteration of `for chunk in response.iter_content(...)`
IterContent ==
  /\ pc = "stream" /\ pending # <<>>
  /\ LET chunk == Head(pending) IN
       /\ IF is_first_chunk(first_chunk) THEN
            /\ first_chunk' = <<chunk>>
            /\ extension_from_content' = detect_file_type_from_content(profile, chunk)
            /\ classified' = Append(classified, chunk)
          ELSE UNCHANGED <<first_chunk, extension_from_content, classified>>
       /\ content_chunks' = append_chunk(content_chunks, chunk)
  /\ pending' = Tail(pending)
  /\ UNCHANGED <<profile, url, base_filename, pc, content_type,
                 extension_from_header, final_extension, final_filename,
                 written, exc, result>>
  /\ UNCHANGED <<pure_vars, env_vars, main_vars>>

\* iter_content raises: the connection broke before the body was complete
StreamBroken ==
  /\ pc = "stream" /\ pending = <<>> /\ url.broken
  /\ Raise("ChunkedEncodingError")
  /\ UNCHANGED <<profile, url, base_filename, content_type,
                 extension_from_header, content_chunks, first_chunk,
                 extension_from_content, final_extension, final_filename,
                 pending, written, result, classified>>
  /\ UNCHANGED <<pure_vars, env_vars, main_vars>>

\* the loop is over: decide on the extension and build the file name.
\* Reading extension_from_content while no assignment has bound it raises
\* UnboundLocalError.
Decide ==
  /\ pc = "stream" /\ pending = <<>> /\ ~url.broken
  /\ IF extension_from_content = Unbound THEN
       /\ Raise("UnboundLocalError")
       /\ UNCHANGED <<final_extension, final_filename>>
     ELSE
       /\ final_extension' =
            resolve_extension(profile, extension_from_content, extension_from_header)
       /\ final_filename' =
            make_filename(base_filename,
              resolve_extension(profile, extension_from_content, extension_from_header))
       /\ pc' = "open"
       /\ exc' = exc
  /\ UNCHANGED <<profile, url, base_filename, content_type,
                 extension_from_header, content_chunks, first_chunk,
                 extension_from_content, pending, written, result, classified>>
  /\ UNCHANGED <<pure_vars, env_vars, main_vars>>

\* with open(final_filename, 'wb') as file: the open itself.  It raises
\* OSError when the file may not be created or truncated; otherwise the file
\* exists and is empty from here on.
OpenFile ==
  /\ pc = "open"
  /\ IF ~disk.writable THEN
       /\ Raise("OSError")
       /\ UNCHANGED <<fs, written>>
     ELSE
       /\ fs' = fs_open_wb(fs, path_of(cwd, final_filename))
       /\ written' = 0
       /\ pc' = "write"
       /\ exc' = exc
  /\ UNCHANGED <<profile, url, base_filename, content_type,
                 extension_from_header, content_chunks, first_chunk,
                 extension_from_content, final_extension, final_filename,
                 pending, result, classified>>
  /\ UNCHANGED <<pure_vars, cwd, fs0, disk, main_vars>>

\* one iteration of `for chunk in content_chunks: file.write(chunk)`.  It
\* raises OSError when the disk has no room left; what was written stays.
WriteChunk ==
  /\ pc = "write" /\ written < Len(content_chunks)
  /\ IF disk.limited /\ disk.room = 0 THEN
       /\ Raise("OSError")
       /\ UNCHANGED <<fs, written, disk>>
     ELSE
       /\ fs' = fs_write(fs, path_of(cwd, final_filename), content_chunks[written + 1])
       /\ written' = written + 1
       /\ disk' = IF disk.limited THEN [disk EXCEPT !.room = @ - 1] ELSE disk
       /\ UNCHANGED <<pc, exc>>
  /\ UNCHANGED <<profile, url, base_filename, content_type,
                 extension_from_header, content_chunks, first_chunk,
                 extension_from_content, final_extension, final_filename,
                 pending, result, classified>>
  /\ UNCHANGED <<pure_vars, cwd, fs0, main_vars>>

\* the with block is left and download_file returns True, final_filename
ReturnSuccess ==
  /\ pc = "write" /\ written = Len(content_chunks)
  /\ result' = <<TRUE, final_filename>>
  /\ pc' = "done"
  /\ UNCHANGED <<profile, url, base_filename, content_type,
                 extension_from_header, content_chunks, first_chunk,
                 extension_from_content, final_extension, final_filename,
                 pending, written, exc, classified>>
  /\ UNCHANGED <<pure_vars, env_vars, main_vars>>

\* the except clauses: a caught exception becomes the return value
\* False, None; an exception no clause catches leaves download_file
Except ==
  /\ pc = "except"
  /\ IF caught(profile, exc) THEN
       /\ result' = <<FALSE, None>>
       /\ pc' = "done"
     ELSE
       /\ result' = result
       /\ pc' = "raised"
  /\ UNCHANGED <<profile, url, base_filename, content_type,
                 extension_from_header, content_chunks, first_chunk,
                 extension_from_content, final_extension, final_filename,
                 pending, written, exc, classified>>
  /\ UNCHANGED <<pure_vars, env_vars, main_vars>>

(***************************************************************************)
(* SpecDownload: one call of download_file with any URL, header and disk   *)
(***************************************************************************)
\* longest response body, in chunks
MaxChunks == 2

\* most chunks a disk that runs full still takes
MaxRoom == 1

CHUNK_PDF   == SIG_PDF \o bytes_of("-1.4")
CHUNK_XLSX  == SIG_ZIP \o bytes_of("xl/workbook.xml")
CHUNK_DOCX  == SIG_ZIP \o bytes_of("word/document.xml")
CHUNK_OLE   == SIG_OLE \o <<0, 0>>
CHUNK_JSON  == bytes_of("{\"a\": 1}")
CHUNK_PLAIN == bytes_of("hello")

Chunks == {CHUNK_PDF, CHUNK_XLSX, CHUNK_DOCX, CHUNK_OLE, CHUNK_JSON, CHUNK_PLAIN}

\* the sequences over S of length at most n
RECURSIVE SeqsUpTo(_, _)
SeqsUpTo(S, n) ==
  IF n = 0 THEN {<<>>}
  ELSE LET shorter == SeqsUpTo(S, n - 1)
       IN  shorter \cup {Append(q, x) : q \in shorter, x \in S}

HeaderValues ==
  { NoHeader, "", "application/octet-stream", "application/vnd.ms-excel",
    "Application/PDF; charset=binary", "text/html", "text/csv" }

\* the URLs that answer with a success status
GoodUrls ==
  { [fault |-> "none", status |-> 200, ctype |-> h, body |-> b, broken |-> k] :
      h \in HeaderValues, b \in SeqsUpTo(Chunks, MaxChunks), k \in BOOLEAN }

\* the URLs the request or the status check fails for
BadUrls ==
  { [fault |-> f, status |-> st, ctype |-> NoHeader, body |-> <<>>, broken |-> FALSE] :
      f \in {"connect", "timeout"}, st \in {200} }
  \cup
  { [fault |-> "none", status |-> st, ctype |-> "text/html",
     body |-> <<CHUNK_PLAIN>>, broken |-> FALSE] : st \in {404, 500} }

Disks ==
  { [writable |-> w, limited |-> FALSE, room |-> 0] : w \in BOOLEAN }
  \cup { [writable |-> w, limited |-> TRUE, room |-> r] :
           w \in BOOLEAN, r \in 0..MaxRoom }

OLD_CONTENT == bytes_of("old")

Extensions ==
  { ".pdf", ".xls", ".xlsx", ".zip", ".rar", ".7z", ".bin", ".csv", ".json",
    ".txt", ".xml", ".docx", ".gz", ".bz2", ".file" }

\* a directory that already holds a file of every name base can be saved under
OldFiles(dir, base) ==
  [p \in {path_of(dir, make_filename(base, e)) : e \in Extensions} |-> OLD_CONTENT]

InitDownload ==
  /\ PureIdle /\ MainIdle
  /\ cwd = "."
  /\ fs \in {NoFiles, OldFiles(".", "report")}
  /\ fs0 = fs
  /\ disk \in Disks
  /\ profile \in {"investments", "controls"}
  /\ url \in GoodUrls \cup BadUrls
  /\ base_filename = "report"
  /\ pc = "request"
  /\ content_type = Unbound /\ extension_from_header = Unbound
  /\ content_chunks = Unbound /\ first_chunk = Unbound
  /\ extension_from_content = Unbound /\ final_extension = Unbound
  /\ final_filename = Unbound /\ pending = <<>> /\ written = 0
  /\ exc = None /\ result = NoResult /\ classified = <<>>

NextDownload ==
  \/ Request \/ IterContent \/ StreamBroken \/ Decide
  \/ OpenFile \/ WriteChunk \/ ReturnSuccess \/ Except

SpecDownload == InitDownload /\ [][NextDownload]_vars

(***************************************************************************)
(* main(): the loop over the rows of the source table, in both scripts.    *)
(* A row is [Oblast, Key, Link]; Key is the Year column (already formatted *)
(* as text) in get_investments_data.py and the Type column in              *)
(* get_other_controls.py.  The model starts where the table has been read. *)
(***************************************************************************)
ORIGINAL_DIR    == "Code"
DATA_DIR        == "Data"
INVESTMENTS_DIR == "Data/Investments"
CONTROLS_DIR    == "Data/Controls"

\* f"{year}_Investments"
base_filename_investments(row) == row.Key \o "_Investments"

\* sanitize_filename(f"{oblast}_{control_type}")
base_filename_controls(row) == sanitize_filename(row.Oblast \o "_" \o row.Key)

\* f"{oblast}_{year}"
failure_id_investments(row) == row.Oblast \o "_" \o row.Key

\* f"{oblast} - {control_type}"
failure_id_controls(row) == row.Oblast \o " - " \o row.Key

\* tally_investments counting a failure without recording which row failed
tally_without_list(success, ok, failed, failed_list, row) ==
  IF success
    THEN [ok |-> ok + 1, failed |-> failed, list |-> failed_list]
    ELSE [ok |-> ok, failed |-> failed + 1, list |-> failed_list]

\* if success: successful_downloads += 1
\* else: failed_downloads += 1; failed_downloads_list.append(...)
tally_investments(success, ok, failed, failed_list, row) ==
  IF success
    THEN [ok |-> ok + 1, failed |-> failed, list |-> failed_list]
    ELSE [ok |-> ok, failed |-> failed + 1,
          list |-> Append(failed_list, failure_id_investments(row))]

tally_controls(success, ok, failed, failed_list, row) ==
  IF success
    THEN [ok |-> ok + 1, failed |-> failed, list |-> failed_list]
    ELSE [ok |-> ok, failed |-> failed + 1,
          list |-> Append(failed_list, failure_id_controls(row))]

\* os.path.exists(name), for a name relative to the working directory dir
path_exists(dir, name) ==
  path_of(dir, name) \in dirs \/ path_of(dir, name) \in DOMAIN fs

\* if previous_oblast is None or oblast != previous_oblast
enters_new_folder(previous, oblast) == previous = None \/ oblast # previous

\* parent_for_row without the os.chdir(investments_dir) between two oblasts
parent_for_row_stay(previous, dir) == dir

\* the working directory in which the oblast folder is looked up and
\* created: Investments after os.chdir(investments_dir), which is skipped
\* on the first row
parent_for_row(previous, dir) == IF previous # None THEN INVESTMENTS_DIR ELSE dir

\* the working directory after the `if previous_oblast is None or ...` block
folder_for_row(previous, oblast, dir) ==
  IF enters_new_folder(previous, oblast)
    THEN path_of(parent_for_row(previous, dir), oblast)
    ELSE dir

\* os.makedirs / os.chdir into Investments, and the initial statistics
InvestmentsStart ==
  /\ mpc = "start" /\ profile = "investments"
  /\ dirs' = dirs \cup {INVESTMENTS_DIR}
  /\ cwd' = INVESTMENTS_DIR
  /\ previous_oblast' = None
  /\ successful_downloads' = 0 /\ failed_downloads' = 0
  /\ failed_downloads_list' = <<>>
  /\ index' = 0
  /\ mpc' = "loop"
  /\ UNCHANGED <<df, calls, outcomes, fs, fs0, disk, pure_vars, call_vars>>

\* os.makedirs / os.chdir into Controls, and the initial statistics
ControlsStart ==
  /\ mpc = "start" /\ profile = "controls"
  /\ dirs' = dirs \cup {CONTROLS_DIR}
  /\ cwd' = CONTROLS_DIR
  /\ successful_downloads' = 0 /\ failed_downloads' = 0
  /\ failed_downloads_list' = <<>>
  /\ index' = 0
  /\ mpc' = "loop"
  /\ UNCHANGED <<df, previous_oblast, calls, outcomes, fs, fs0, disk,
                 pure_vars, call_vars>>

\* the loop body of get_investments_data.py up to the call of download_file
InvestmentsRow ==
  /\ mpc = "loop" /\ profile = "investments" /\ index < Len(df)
  /\ LET row == df[index + 1]
         target == folder_for_row(previous_oblast, row.Oblast, cwd)
     IN  /\ cwd' = target
         /\ dirs' = IF enters_new_folder(previous_oblast, row.Oblast)
                         /\ ~path_exists(parent_for_row(previous_oblast, cwd), row.Oblast)
                      THEN dirs \cup {target} ELSE dirs
         /\ Enter("investments", row.Link, base_filename_investments(row))
  /\ calls' = Append(calls, index + 1)
  /\ mpc' = "downloading"
  /\ UNCHANGED <<df, index, previous_oblast, successful_downloads,
                 failed_downloads, failed_downloads_list, outcomes,
                 fs, disk, pure_vars>>

\* the loop body of get_other_controls.py up to the call of download_file
ControlsRow ==
  /\ mpc = "loop" /\ profile = "controls" /\ index < Len(df)
  /\ Enter("controls", df[index + 1].Link, base_filename_controls(df[index + 1]))
  /\ calls' = Append(calls, index + 1)
  /\ mpc' = "downloading"
  /\ UNCHANGED <<df, index, previous_oblast, dirs, successful_downloads,
                 failed_downloads, failed_downloads_list, outcomes,
                 cwd, fs, disk, pure_vars>>

\* download_file is over: it returned, or an exception left it (the loop has
\* no try block, so that exception ends main)
Leave ==
  /\ profile' = profile /\ url' = url /\ base_filename' = base_filename
  /\ pc' = "idle"
  /\ UNCHANGED <<content_type, extension_from_header, content_chunks,
                 first_chunk, extension_from_content, final_extension,
                 final_filename, pending, written, exc, result, classified>>

\* the rest of the loop body of get_investments_data.py
InvestmentsAccount ==
  /\ mpc = "downloading" /\ profile = "investments" /\ pc \in {"done", "raised"}
  /\ IF pc = "raised" THEN
       /\ mpc' = "crashed"
       /\ UNCHANGED <<index, previous_oblast, successful_downloads,
                      failed_downloads, failed_downloads_list, outcomes>>
     ELSE
       LET t == tally_investments(result[1], successful_downloads,
                                  failed_downloads, failed_downloads_list,
                                  df[index + 1])
       IN  /\ successful_downloads' = t.ok
           /\ failed_downloads' = t.failed
           /\ failed_downloads_list' = t.list
           /\ previous_oblast' = df[index + 1].Oblast
           /\ outcomes' = Append(outcomes, result[1])
           /\ index' = index + 1
           /\ mpc' = "loop"
  /\ Leave
  /\ UNCHANGED <<df, dirs, calls, env_vars, pure_vars>>

\* the rest of the loop body of get_other_controls.py
ControlsAccount ==
  /\ mpc = "downloading" /\ profile = "controls" /\ pc \in {"done", "raised"}
  /\ IF pc = "raised" THEN
       /\ mpc' = "crashed"
       /\ UNCHANGED <<index, successful_downloads, failed_downloads,
                      failed_downloads_list, outcomes>>
     ELSE
       LET t == tally_controls(result[1], successful_downloads,
                               failed_downloads, failed_downloads_list,
                               df[index + 1])
       IN  /\ successful_downloads' = t.ok
           /\ failed_downloads' = t.failed
           /\ failed_downloads_list' = t.list
           /\ outcomes' = Append(outcomes, result[1])
           /\ index' = index + 1
           /\ mpc' = "loop"
  /\ Leave
  /\ UNCHANGED <<df, previous_oblast, dirs, calls, env_vars, pure_vars>>

\* the loop is over: os.chdir(original_dir)
InvestmentsFinish ==
  /\ mpc = "loop" /\ profile = "investments" /\ index = Len(df)
  /\ cwd' = ORIGINAL_DIR
  /\ mpc' = "report"
  /\ UNCHANGED <<df, index, previous_oblast, dirs, successful_downloads,
                 failed_downloads, failed_downloads_list, calls, outcomes,
                 fs, fs0, disk, pure_vars, call_vars>>

ControlsFinish ==
  /\ mpc = "loop" /\ profile = "controls" /\ index = Len(df)
  /\ cwd' = ORIGINAL_DIR
  /\ mpc' = "report"
  /\ UNCHANGED <<df, index, previous_oblast, dirs, successful_downloads,
                 failed_downloads, failed_downloads_list, calls, outcomes,
                 fs, fs0, disk, pure_vars, call_vars>>

(***************************************************************************)
(* SpecMain: a run of either script over a table of at most MaxRows rows   *)
(***************************************************************************)
MaxRows == 3

\* the <<Oblast, Key>> pairs the rows of the table are drawn from
Sources(prof) ==
  IF prof = "investments"
    THEN { <<"Almaty", "2020">>, <<"Almaty", "2021">>, <<"Astana", "2020">> }
    ELSE { <<"Almaty", "GRP">>, <<"Almaty", "Pop/Density">>, <<"Astana", "GRP">> }

URL_PDF ==
  [fault |-> "none", status |-> 200, ctype |-> "application/octet-stream",
   body |-> <<CHUNK_PDF>>, broken |-> FALSE]
URL_404 ==
  [fault |-> "none", status |-> 404, ctype |-> "text/html",
   body |-> <<CHUNK_PLAIN>>, broken |-> FALSE]
URL_BROKEN ==
  [fault |-> "none", status |-> 200, ctype |-> "application/vnd.ms-excel",
   body |-> <<CHUNK_OLE>>, broken |-> TRUE]

Links == {URL_PDF, URL_404, URL_BROKEN}

Rows(prof) ==
  { [Oblast |-> s[1], Key |-> s[2], Link |-> l] : s \in Sources(prof), l \in Links }

MainDisks ==
  { GoodDisk,
    [writable |-> FALSE, limited |-> FALSE, room |-> 0],
    [writable |-> TRUE, limited |-> TRUE, room |-> 1] }

InitMain ==
  /\ PureIdle
  /\ profile \in {"investments", "controls"}
  /\ df \in SeqsUpTo(Rows(profile), MaxRows)
  /\ url = None /\ base_filename = None /\ pc = "idle"
  /\ content_type = Unbound /\ extension_from_header = Unbound
  /\ content_chunks = Unbound /\ first_chunk = Unbound
  /\ extension_from_content = Unbound /\ final_extension = Unbound
  /\ final_filename = Unbound /\ pending = <<>> /\ written = 0
  /\ exc = None /\ result = NoResult /\ classified = <<>>
  /\ cwd = ORIGINAL_DIR /\ fs = NoFiles /\ fs0 = NoFiles
  /\ disk \in MainDisks
  /\ dirs = {ORIGINAL_DIR, DATA_DIR}
  /\ index = 0 /\ mpc = "start" /\ previous_oblast = None
  /\ successful_downloads = 0 /\ failed_downloads = 0
  /\ failed_downloads_list = <<>> /\ calls = <<>> /\ outcomes = <<>>

NextMain ==
  \/ InvestmentsStart \/ ControlsStart
  \/ InvestmentsRow \/ ControlsRow
  \/ Request \/ IterContent \/ StreamBroken \/ Decide
  \/ OpenFile \/ WriteChunk \/ ReturnSuccess \/ Except
  \/ InvestmentsAccount \/ ControlsAccount
  \/ InvestmentsFinish \/ ControlsFinish

SpecMain == InitMain /\ [][NextMain]_vars

(***************************************************************************)
(* The claims                                                              *)
(***************************************************************************)
Returned == pc = "done"
Succeeded == pc = "done" /\ result[1] = TRUE
Failed == pc = "done" /\ result[1] = FALSE

\* the file download_file saves to
TargetPath == path_of(cwd, final_filename)

\* the chunks of a body, joined
RECURSIVE concat_all(_)
concat_all(chunks) ==
  IF chunks = <<>> THEN <<>> ELSE Head(chunks) \o concat_all(Tail(chunks))

\* C1: in get_investments_data.py, once the extension is decided it is the
\* label of the first chunk's signature unless that is '.file', else the
\* label of the content-type header unless that is '.file', else '.file';
\* the file name is base_filename followed by it.  When both labels are not
\* '.file' and differ, the signature's label is the one used.
C1_SignatureBeatsHeader ==
  (profile = "investments" /\ final_extension # Unbound) =>
    LET sig == detect_file_type_from_content_investments(url.body[1])
        hdr == get_file_extension_from_content_type_investments(header_get(url))
    IN  /\ sig # ".file" => final_extension = sig
        /\ (sig = ".file" /\ hdr # ".file") => final_extension = hdr
        /\ (sig = ".file" /\ hdr = ".file") => final_extension = ".file"
        /\ final_filename = base_filename \o final_extension
        /\ Succeeded => result[2] = base_filename \o final_extension

\* a PDF body served as application/octet-stream is saved as report.pdf
C1_Witness ==
  /\ Succeeded /\ profile = "investments"
  /\ url.body[1] = CHUNK_PDF /\ url.ctype = "application/octet-stream"
  /\ get_file_extension_from_content_type_investments(header_get(url)) = ".bin"
  /\ result = <<TRUE, "report.pdf">>

\* C2: no exception leaves download_file, in either script: a failure of
\* the request, the status check, the streaming or the write ends in the
\* return value (False, None), and a successful return is
\* (True, base_filename + final_extension).
C2_NoExceptionEscapes ==
  /\ pc # "raised"
  /\ Returned =>
       \/ result = <<FALSE, None>>
       \/ /\ exc = None /\ final_extension # Unbound
          /\ result = <<TRUE, base_filename \o final_extension>>
  /\ (Returned /\ exc # None) => result = <<FALSE, None>>

\* a write that fails is reported as (False, None)
C2_Witness ==
  /\ Returned /\ exc = "OSError" /\ written = 1 /\ result = <<FALSE, None>>

\* C3: when download_file returns a failure the file system is as it was
\* when the call began.
C3_FailureLeavesFilesUntouched == Failed => fs = fs0

\* C4: a response with a success status, delivered without transport error
\* and with no failing write, makes download_file return success, also when
\* the body has no chunks.
C4_ClassificationNeverFails ==
  (Returned /\ url.fault = "none" /\ ~raises_for_status(url.status)
     /\ ~url.broken /\ exc # "OSError") => result[1] = TRUE

\* C7: on success the saved file holds the delivered chunks joined in
\* delivery order, whatever file had that name before; no other file
\* changes; the signature classifier was given the first chunk and nothing
\* else.
C7_FileIsBodyInOrder ==
  Succeeded =>
    /\ TargetPath \in DOMAIN fs
    /\ fs[TargetPath] = concat_all(url.body)
    /\ DOMAIN fs = DOMAIN fs0 \cup {TargetPath}
    /\ \A q \in DOMAIN fs0 : q # TargetPath => fs[q] = fs0[q]
    /\ classified = <<url.body[1]>>

\* two different chunks saved over an existing file
C7_Witness ==
  /\ Succeeded /\ Len(url.body) = 2 /\ url.body[1] # url.body[2]
  /\ TargetPath \in DOMAIN fs0 /\ fs0[TargetPath] = OLD_CONTENT
  /\ fs[TargetPath] = url.body[1] \o url.body[2]

\* C6: in get_other_controls.py, when the first chunk starts with no entry
\* of the signature table and the content-type header maps to '.xls', the
\* extension is '.xls'.
C6_ControlsHeaderBeatsDefault ==
  (/\ profile = "controls" /\ final_extension # Unbound
   /\ \A i \in 1..Len(magic_numbers_controls) :
        ~StartsWith(url.body[1], magic_numbers_controls[i][1])
   /\ get_file_extension_from_content_type_controls(header_get(url)) = ".xls")
    => final_extension = ".xls"

\* C5: in get_investments_data.py a buffer starting with 50 4B 03 04 is
\* '.xlsx' when its first 1024 bytes contain 'xl/', '.docx' when they
\* contain 'word/' and no 'xl/', and '.zip' when they contain neither.
C5_ZipFamilyByMarker ==
  (op = "detect_investments" /\ StartsWith(arg, SIG_ZIP)) =>
    LET window == Slice(arg, 1024)
        xl     == Contains(MARK_XL, window)
        word   == Contains(MARK_WORD, window)
    IN  /\ xl => ret = ".xlsx"
        /\ (word /\ ~xl) => ret = ".docx"
        /\ (~word /\ ~xl) => ret = ".zip"

\* C8: in both scripts the label of a header is the label of its normal
\* form (the text before the first semicolon, trimmed, in lower case), and
\* a normal form that is empty or not in the table gets '.file'
\* (get_investments_data.py) or '.xlsx' (get_other_controls.py).
\* shape.base is the normal form of the header arg.
C8_LabelOfNormalForm ==
  /\ op = "content_type_investments" =>
       /\ ret = get_file_extension_from_content_type_investments(shape.base)
       /\ ret = dict_get(content_type_map_investments, shape.base, ".file")
       /\ (shape.base = "" \/ shape.base \notin DOMAIN content_type_map_investments)
            => ret = ".file"
  /\ op = "content_type_controls" =>
       /\ ret = get_file_extension_from_content_type_controls(shape.base)
       /\ ret = dict_get(content_type_map_controls, shape.base, ".xlsx")
       /\ (shape.base = "" \/ shape.base \notin DOMAIN content_type_map_controls)
            => ret = ".xlsx"

\* " TEXT/CSV ; charset=utf-8"-like header classified as '.csv'
C8_Witness ==
  /\ op = "content_type_investments" /\ shape.base = "text/csv"
  /\ shape.step = 1 /\ shape.lead = " " /\ shape.params = "; charset=utf-8"
  /\ arg # shape.base /\ ret = ".csv"

\* C9: the result of sanitize_filename holds none of < > : " / \ | ? *,
\* neither starts nor ends with a space or a dot, and has at most 200
\* characters.
C9_SanitizedNameIsSafe ==
  op = "sanitize_filename" =>
    /\ \A i \in 1..Len(ret) :
         \A j \in 1..Len(invalid_chars) :
           SubSeq(ret, i, i) # SubSeq(invalid_chars, j, j)
    /\ Len(ret) > 0 =>
         /\ SubSeq(ret, 1, 1) \notin {" ", "."}
         /\ SubSeq(ret, Len(ret), Len(ret)) \notin {" ", "."}
    /\ Len(ret) <= 200

\* the identifier main records for a failed row
FailureId(row) ==
  IF profile = "investments" THEN row.Oblast \o "_" \o row.Key
  ELSE row.Oblast \o " - " \o row.Key

\* the identifiers of the rows among the first k whose download failed
RECURSIVE FailedIds(_)
FailedIds(k) ==
  IF k = 0 THEN <<>>
  ELSE IF outcomes[k] THEN FailedIds(k - 1)
  ELSE Append(FailedIds(k - 1), FailureId(df[k]))

\* C10: in both loops the rows are handed to download_file once each, in
\* row order, whatever the earlier rows returned; after each row
\* successful_downloads + failed_downloads is the number of rows processed,
\* and failed_downloads_list holds the identifiers of the failed rows in row
\* order, one each.
C10_EveryRowOnceAndCounted ==
  (mpc # "idle") =>
    /\ mpc # "crashed"
    /\ calls = [i \in 1..Len(calls) |-> i]
    /\ Len(calls) = index + (IF mpc = "downloading" THEN 1 ELSE 0)
    /\ Len(outcomes) = index
    /\ mpc = "report" => index = Len(df)
    /\ mpc = "downloading" => url = df[index + 1].Link
    /\ successful_downloads + failed_downloads = index
    /\ Len(failed_downloads_list) = failed_downloads
    /\ failed_downloads_list = FailedIds(index)

\* a run of three rows in which the first and the last download fail
C10_Witness ==
  /\ mpc = "report" /\ Len(df) = 3
  /\ outcomes = <<FALSE, TRUE, FALSE>>
  /\ successful_downloads = 1 /\ failed_downloads = 2
  /\ failed_downloads_list = <<FailureId(df[1]), FailureId(df[3])>>
  /\ df[1] # df[3]

\* C11 as stated: in get_investments_data.py a buffer starting with
\* 50 4B 05 06 or 50 4B 07 08 is '.xlsx' when its first 1024 bytes contain
\* 'xl/', '.docx' when they contain 'word/' and no 'xl/', and '.zip' when
\* they contain neither.
C11_EveryZipVariantByMarker ==
  (/\ op = "detect_investments"
   /\ (StartsWith(arg, SIG_ZIP_EMPTY) \/ StartsWith(arg, SIG_ZIP_SPAN))) =>
    LET window == Slice(arg, 1024)
        xl     == Contains(MARK_XL, window)
        word   == Contains(MARK_WORD, window)
    IN  /\ xl => ret = ".xlsx"
        /\ (word /\ ~xl) => ret = ".docx"
        /\ (~word /\ ~xl) => ret = ".zip"

\* C11: in get_investments_data.py the interior markers are looked up only
\* after the signature 50 4B 03 04; a buffer starting with 50 4B 05 06 or
\* 50 4B 07 08 is '.zip' whatever its first 1024 bytes contain.
C11_OtherZipVariantsAreZip ==
  (/\ op = "detect_investments"
   /\ (StartsWith(arg, SIG_ZIP_EMPTY) \/ StartsWith(arg, SIG_ZIP_SPAN))) =>
    ret = ".zip"

\* 50 4B 05 06 followed by 'xl/' within the first 1024 bytes, and
\* 50 4B 07 08 followed by 'word/', both classified '.zip'
C11_Witness ==
  /\ op = "detect_investments" /\ ret = ".zip"
  /\ \/ /\ StartsWith(arg, SIG_ZIP_EMPTY)
        /\ Contains(MARK_XL, Slice(arg, SniffWindow))
     \/ /\ StartsWith(arg, SIG_ZIP_SPAN)
        /\ Contains(MARK_WORD, Slice(arg, SniffWindow))

\* C12: in get_other_controls.py, once the extension is decided it is '.xls'
\* or '.xlsx' and the file name is base_filename followed by it, for every
\* first chunk and every content-type header; it is '.xlsx' when the first
\* chunk starts with no entry of the signature table and the header's normal
\* form is empty or not in the table, and '.xlsx' when the first chunk starts
\* with 50 4B 03 04, 50 4B 05 06 or 50 4B 07 08 and its first 1024 bytes do
\* not contain 'xl/'.  A successful call returns that file name.
C12_ControlsAlwaysSpreadsheet ==
  (profile = "controls" /\ final_extension # Unbound) =>
    LET first   == url.body[1]
        matched == \E i \in 1..Len(magic_numbers_controls) :
                     StartsWith(first, magic_numbers_controls[i][1])
        zip     == \E sig \in {SIG_ZIP, SIG_ZIP_EMPTY, SIG_ZIP_SPAN} :
                     StartsWith(first, sig)
        normal  == clean_content_type_controls(header_get(url))
    IN  /\ final_extension \in {".xls", ".xlsx"}
        /\ final_filename = base_filename \o final_extension
        /\ Succeeded =>
             /\ result = <<TRUE, base_filename \o final_extension>>
             /\ TargetPath \in DOMAIN fs
        /\ (~matched /\ (normal = "" \/ normal \notin DOMAIN content_type_map_controls))
             => final_extension = ".xlsx"
        /\ (zip /\ ~Contains(MARK_XL, Slice(first, 1024)))
             => final_extension = ".xlsx"

\* a word-processor package served as text/html is saved as report.xlsx
C12_Witness ==
  /\ Succeeded /\ profile = "controls"
  /\ url.body[1] = CHUNK_DOCX /\ url.ctype = "text/html"
  /\ ~Contains(MARK_XL, Slice(url.body[1], SniffWindow))
  /\ "text/html" \notin DOMAIN content_type_map_controls
  /\ result = <<TRUE, "report.xlsx">>

\* C13: in main() of get_investments_data.py, while download_file runs for
\* a row the working directory is the existing folder
\* Data/Investments/<Oblast of that row>, the call is the one for that row's
\* link and year, and every file the call creates or changes lies in that
\* folder, also when the oblast was left for another one before; after the
\* loop the working directory is the one main() started in.
C13_EachRowInItsOblastFolder ==
  profile = "investments" =>
    /\ mpc = "downloading" =>
         LET row    == df[index + 1]
             folder == "Data/Investments" \o "/" \o row.Oblast
         IN  /\ cwd = folder /\ folder \in dirs
             /\ url = row.Link
             /\ base_filename = row.Key \o "_Investments"
             /\ \A f \in DOMAIN fs :
                  (f \notin DOMAIN fs0 \/ fs[f] # fs0[f]) =>
                    /\ final_filename # Unbound
                    /\ f = folder \o "/" \o final_filename
    /\ mpc = "report" => cwd = ORIGINAL_DIR

\* Almaty, Astana, Almaty again: the third file is saved next to the first
C13_Witness ==
  /\ profile = "investments" /\ mpc = "downloading" /\ Succeeded
  /\ Len(df) = 3 /\ index = 2
  /\ df[1].Oblast = "Almaty" /\ df[2].Oblast = "Astana" /\ df[3].Oblast = "Almaty"
  /\ df[1].Key = "2020" /\ df[3].Key = "2021"
  /\ previous_oblast = "Astana"
  /\ cwd = "Data/Investments/Almaty"
  /\ DOMAIN fs = { "Data/Investments/Almaty/2020_Investments.pdf",
                   "Data/Investments/Astana/2020_Investments.pdf",
                   "Data/Investments/Almaty/2021_Investments.pdf" }
  /\ "Data/Investments/Almaty/2021_Investments.pdf" \notin DOMAIN fs0

====
